---- MODULE Spec2Model ----
(***************************************************************************)
(* AeroPropulse Level 3 (src/app.py): one Streamlit script that reads the  *)
(* sidebar widgets and evaluates a coupled Brayton-cycle operating point   *)
(* top to bottom, then renders metrics, a throttle warning and a banner.   *)
(*                                                                         *)
(* Number representation.  The script computes in IEEE doubles; the model  *)
(* computes in decimal fixed point on TLC's integers:                      *)
(*   - dimensionless ratios, exponents        : units of 1/SCALE           *)
(*   - temperatures                           : centikelvin  (K * CENTI)   *)
(*   - pressures                              : pascal                     *)
(*   - velocities                             : 0.1 m/s                    *)
(*   - mass flow                              : 0.01 kg/s                  *)
(*   - f                                      : units of 1/MICRO           *)
(* x ** y is Exp(y * Ln(x)) on series evaluated in fixed point.            *)
(***************************************************************************)
EXTENDS Integers, FiniteSets, Sequences, TLC

\* ------------------------------------------------------------------------
\* Fixed-point arithmetic (the script's float *, /, ** and np.sqrt)
\* ------------------------------------------------------------------------
SCALE == 10 ^ 4
CENTI == 10 ^ 2
MICRO == 10 ^ 6

\* a * b / SCALE rounded to nearest, without leaving 32 bits.
MulS(a, b) ==
    LET ah == a \div SCALE
        al == a % SCALE
        bh == b \div SCALE
        bl == b % SCALE
    IN  ah * bh * SCALE + ah * bl + al * bh + (al * bl + SCALE \div 2) \div SCALE

\* a * SCALE / b rounded to nearest, by long division; b # 0.
DivPos(a, b) ==
    LET q0 == a \div b
        r0 == a % b
        q1 == (10 * r0) \div b
        r1 == (10 * r0) % b
        q2 == (10 * r1) \div b
        r2 == (10 * r1) % b
        q3 == (10 * r2) \div b
        r3 == (10 * r2) % b
        q4 == (10 * r3) \div b
        r4 == (10 * r3) % b
    IN  q0 * SCALE + q1 * 1000 + q2 * 100 + q3 * 10 + q4
        + (IF 2 * r4 >= b THEN 1 ELSE 0)

DivS(a, b) == IF b > 0 THEN DivPos(a, b) ELSE DivPos(-a, -b)

\* ln of a value in [SCALE, 2*SCALE): 2*atanh((x-1)/(x+1)).
LnSeries(x) ==
    LET z  == DivS(x - SCALE, x + SCALE)
        z2 == MulS(z, z)
        z3 == MulS(z2, z)
        z5 == MulS(z3, z2)
        z7 == MulS(z5, z2)
        z9 == MulS(z7, z2)
    IN  2 * z + (2 * z3) \div 3 + (2 * z5) \div 5 + (2 * z7) \div 7
        + (2 * z9) \div 9

\* ln(2^k) in units of 1/SCALE, from ln 2 = 0.693147.
LnPow2(k) == (k * 693147 + (IF k >= 0 THEN 50 ELSE -50)) \div 100

RECURSIVE LnNorm(_, _)
LnNorm(x, k) ==
    IF x >= 2 * SCALE THEN LnNorm((x + 1) \div 2, k + 1)
    ELSE IF x < SCALE THEN LnNorm(2 * x, k - 1)
    ELSE LnPow2(k) + LnSeries(x)

\* Natural logarithm of x > 0.
Ln(x) == LnNorm(x, 0)

RECURSIVE Pow2(_)
Pow2(k) == IF k <= 0 THEN 1 ELSE 2 * Pow2(k - 1)

\* e^r for r in [0, ln 2).
ExpSeries(r) ==
    LET r2 == MulS(r, r)
        r3 == MulS(r2, r)
        r4 == MulS(r3, r)
        r5 == MulS(r4, r)
        r6 == MulS(r5, r)
    IN  SCALE + r + r2 \div 2 + r3 \div 6 + r4 \div 24 + r5 \div 120
        + r6 \div 720

\* a / b rounded to nearest (half up); b > 0.
RDiv(a, b) == (2 * a + b) \div (2 * b)

\* p * e^y, keeping the relative precision of p when e^y is small.
ExpTimes(p, y) ==
    LET k  == (y * 100) \div 693147
        r  == y - LnPow2(k)
        pm == MulS(p, ExpSeries(IF r < 0 THEN 0 ELSE r))
    IN  IF k >= 0 THEN pm * Pow2(k)
        ELSE IF k < -29 THEN 0
        ELSE RDiv(pm, Pow2(-k))

\* e^y.
Exp(y) == ExpTimes(SCALE, y)

\* ln((a / b) ** e) for a, b > 0 in the same unit.
LnPowQ(a, b, e) == MulS(e, Ln(a) - Ln(b))

\* x ** e for a ratio x >= 0 (0.0 ** e is 0.0 for e > 0).
Pow(x, e) == IF x = 0 THEN 0 ELSE Exp(LnPowQ(x, SCALE, e))

RECURSIVE SqrtIter(_, _, _)
SqrtIter(n, lo, hi) ==
    IF lo >= hi THEN lo
    ELSE LET mid == (lo + hi + 1) \div 2
         IN  IF mid * mid <= n THEN SqrtIter(n, mid, hi)
             ELSE SqrtIter(n, lo, mid - 1)

\* np.sqrt on a non-negative integer: the floor of the square root.
Sqrt(n) == SqrtIter(n, 0, 46340)

Max(a, b) == IF a >= b THEN a ELSE b
Min(a, b) == IF a <= b THEN a ELSE b

\* ------------------------------------------------------------------------
\* Constants (app.py lines 6-11) and widget ranges (lines 19-30)
\* ------------------------------------------------------------------------
LHV == 43000000
GAMMA_AIR == 14000
GAMMA_GAS == 13300
CP_AIR == 1005
CP_GAS == 1150
CO2_FACTOR == 31500

ALT_MAX == 50000
MACH_MAX == 250
RPM_MIN == 8000
RPM_MAX == 16000
TIT_MIN == 1000
TIT_MAX == 2200
Materials == {"Stainless Steel", "Inconel 718", "CMSX-4 Superalloy"}

\* Number of subdivisions of each slider range explored by the model.
NAlt == 4
NMach == 5
NRpm == 4
NTit == 4
\* Altitude offset (ft) of the neighbour used to compare two altitudes.
AltProbe == 500

\* B. Material-Temperature Integrity Coupling
get_max_safe_temp(mat) ==
    IF mat = "Stainless Steel" THEN 900
    ELSE IF mat = "Inconel 718" THEN 1350
    ELSE 1900

AltValues == {(i * ALT_MAX) \div NAlt : i \in 0..NAlt}
MachValues == {(i * MACH_MAX) \div NMach : i \in 0..NMach}
RpmValues == {RPM_MIN + (i * (RPM_MAX - RPM_MIN)) \div NRpm : i \in 0..NRpm}
\* The grid of target TITs, and the TITs at and next to each material limit.
TitValues ==
    {TIT_MIN + (i * (TIT_MAX - TIT_MIN)) \div NTit : i \in 0..NTit}
    \cup ({get_max_safe_temp(m) + d : m \in Materials, d \in {-1, 0, 1}}
          \cap (TIT_MIN..TIT_MAX))
\* st.number_input("Reference Air Mass Flow (kg/s)", value=100.0)
MDotRefValues == {100 * CENTI}

\* ------------------------------------------------------------------------
\* The script's expressions, one operator per assignment
\* ------------------------------------------------------------------------
\* pr = 10 + (rpm / 16000)**2 * 40
PR(rpm) ==
    LET r == DivS(rpm, 16000) IN 10 * SCALE + 40 * MulS(r, r)

\* Mutation of Actual_tit: max taken for min.
Actual_titMax(base_tit, max_temp) == Max(base_tit, max_temp)

\* actual_tit = min(base_tit, max_temp)
Actual_tit(base_tit, max_temp) == Min(base_tit, max_temp)

\* Mutation of T_amb: lapse rate with the wrong sign.
T_ambRising(alt) == 28815 + RDiv(198 * alt, 1000)

\* t_amb = 288.15 - (0.00198 * alt)
T_amb(alt) == 28815 - RDiv(198 * alt, 1000)

\* p_amb = 101325 * (t_amb / 288.15)**5.256
P_amb(t_amb) == ExpTimes(101325, LnPowQ(t_amb, 28815, 52560))

\* v_flight = mach * np.sqrt(GAMMA_AIR * 287 * t_amb)
V_flight(mach, t_amb) ==
    RDiv(mach * Sqrt(MulS(GAMMA_AIR, 287 * t_amb)), 100)

\* t2 = t_amb * (1 + 0.5 * (GAMMA_AIR - 1) * mach**2)
T2(t_amb, mach) ==
    MulS(t_amb, SCALE + MulS(MulS(5000, GAMMA_AIR - SCALE), mach * mach))

\* p2 = p_amb * (t2 / t_amb)**(GAMMA_AIR / (GAMMA_AIR - 1))
P2(p_amb, t2, t_amb) ==
    ExpTimes(p_amb, LnPowQ(t2, t_amb, DivS(GAMMA_AIR, GAMMA_AIR - SCALE)))

\* p3 = p2 * pr
P3(p2, pr) == MulS(p2, pr)

\* t3 = t2 + (t2 * (pr**((GAMMA_AIR-1)/GAMMA_AIR)) - t2) / 0.88
T3(t2, pr) ==
    t2 + DivS(MulS(t2, Pow(pr, DivS(GAMMA_AIR - SCALE, GAMMA_AIR))) - t2,
              8800)

\* Mutation of CombustorDenominator: LHV taken in kJ/kg.
CombustorDenominatorKJ(actual_tit) ==
    MulS(9800, LHV \div 1000) - CP_GAS * actual_tit

\* 0.98 * LHV - CP_GAS * actual_tit
CombustorDenominator(actual_tit) == MulS(9800, LHV) - CP_GAS * actual_tit

\* CP_GAS * actual_tit - CP_AIR * t3
CombustorNumerator(actual_tit, t3) ==
    CP_GAS * actual_tit - RDiv(CP_AIR * t3, CENTI)

\* f = (CP_GAS * actual_tit - CP_AIR * t3) / (0.98 * LHV - CP_GAS * actual_tit)
F(actual_tit, t3) ==
    DivS((MICRO \div SCALE) * CombustorNumerator(actual_tit, t3),
         CombustorDenominator(actual_tit))

\* (1 + f)
OnePlus(f) == SCALE + RDiv(f, MICRO \div SCALE)

\* t5 = actual_tit - (CP_AIR * (t3 - t2)) / ((1 + f) * CP_GAS)
T5(actual_tit, t2, t3, f) ==
    actual_tit * CENTI - DivS(CP_AIR * (t3 - t2), OnePlus(f) * CP_GAS)

\* p5 = p3 * (t5 / actual_tit)**(GAMMA_GAS / ((GAMMA_GAS - 1) * 0.92)), t5 >= 0
P5(p3, t5, actual_tit) ==
    IF t5 = 0 THEN 0
    ELSE ExpTimes(p3, LnPowQ(t5, actual_tit * CENTI,
                             DivS(GAMMA_GAS, MulS(GAMMA_GAS - SCALE, 9200))))

\* (p_amb/p5)**((GAMMA_GAS-1)/GAMMA_GAS), p5 a positive real.  A p5 below
\* half a pascal is 0 in this representation; the ratio is then far above 1.
PressureTerm(p_amb, p5) ==
    IF p5 = 0 THEN 2 * SCALE
    ELSE Exp(LnPowQ(p_amb, p5, DivS(GAMMA_GAS - SCALE, GAMMA_GAS)))

\* 2 * CP_GAS * t5 * (1 - (p_amb/p5)**((GAMMA_GAS-1)/GAMMA_GAS))
Radicand(t5, p_amb, p5) ==
    MulS(2 * CP_GAS * t5, SCALE - PressureTerm(p_amb, p5))

\* v_e = np.sqrt(max(0, ...))
V_e(t5, p_amb, p5) == Sqrt(Max(0, Radicand(t5, p_amb, p5)))

\* m_dot_actual = m_dot_ref * (rpm / 12000) * (p_amb / 101325)
M_dot_actual(m_dot_ref, rpm, p_amb) ==
    MulS(MulS(m_dot_ref, DivS(rpm, 12000)), DivS(p_amb, 101325))

\* (1 + f) * v_e - v_flight
SpecificThrust(f, v_e, v_flight) == MulS(v_e, OnePlus(f)) - v_flight

\* thrust_total = m_dot_actual * ((1 + f) * v_e - v_flight), in newton
Thrust_total(m_dot_actual, f, v_e, v_flight) ==
    RDiv(m_dot_actual * SpecificThrust(f, v_e, v_flight), 1000)

\* sfc = (f / ((1 + f) * v_e - v_flight)) * 1_000_000, in 0.01 mg/Ns, for a
\* non-zero divisor
Sfc(f, v_e, v_flight) ==
    LET st == SpecificThrust(f, v_e, v_flight)
    IN  IF st > 0 THEN RDiv(1000 * f, st) ELSE RDiv(-1000 * f, -st)

\* What numpy's float64 division gives: x/0 is +-inf, 0/0 is nan.
SfcKind(f, v_e, v_flight) ==
    IF SpecificThrust(f, v_e, v_flight) # 0 THEN "real"
    ELSE IF f = 0 THEN "nan" ELSE "inf"

\* fuel_flow_hr = f * m_dot_actual * 3600, in kg/hr
Fuel_flow_hr(f, m_dot_actual) == RDiv(MulS(f, m_dot_actual) * 3600, SCALE)

\* co2_hr = fuel_flow_hr * CO2_FACTOR
Co2_hr(fuel_flow_hr) == MulS(fuel_flow_hr, CO2_FACTOR)

\* stress_mpa = (rpm / 1000)**2 * 2.5, in units of 1/SCALE MPa
Stress_mpa(rpm) ==
    LET r == DivS(rpm, 1000) IN MulS(MulS(r, r), 25000)

\* Mutation of Throttle_warning: <= for <.
Throttle_warningNonStrict(actual_tit, base_tit) == actual_tit <= base_tit

\* if actual_tit < base_tit: st.warning("Performance Throttled! ...")
Throttle_warning(actual_tit, base_tit) == actual_tit < base_tit

\* Mutation of Critical_banner: second conjunct dropped.
Critical_bannerAtLimit(actual_tit, base_tit, max_temp) ==
    actual_tit >= max_temp

\* if actual_tit >= max_temp and base_tit > max_temp: st.error("CRITICAL ...")
Critical_banner(actual_tit, base_tit, max_temp) ==
    actual_tit >= max_temp /\ base_tit > max_temp

\* ------------------------------------------------------------------------
\* State: the widget values, the script's globals, what has been rendered
\* ------------------------------------------------------------------------
VARIABLES
    alt, mach, material, rpm, base_tit, m_dot_ref,
    pr, max_temp, actual_tit,
    t_amb, p_amb, v_flight, t2, p2, p3, t3,
    f, t5, p5, v_e,
    m_dot_actual, thrust_total, sfc, fuel_flow_hr, co2_hr, stress_mpa,
    kind, shown, exc, pc

inputs == <<alt, mach, material, rpm, base_tit, m_dot_ref>>
coupling == <<pr, max_temp, actual_tit>>
stations == <<t_amb, p_amb, v_flight, t2, p2, p3, t3>>
core == <<f, t5, p5, v_e>>
results == <<m_dot_actual, thrust_total, sfc, fuel_flow_hr, co2_hr, stress_mpa>>
vars == <<inputs, coupling, stations, core, results, kind, shown, exc, pc>>

\* The script's statements in execution order; pc names the next one.
Stages ==
    <<"pr", "throttle", "atmosphere", "inlet", "compressor", "combustor",
      "turbine", "nozzle", "thrust", "sustain", "metrics", "left", "right",
      "done">>

Idx(stage) == CHOOSE i \in 1..Len(Stages) : Stages[i] = stage

\* The statement of `stage` has run to completion in this evaluation.  The
\* only statement that can raise is line 60 (stage "nozzle").
Executed(stage) ==
    IF pc = "crashed" THEN Idx(stage) < Idx("nozzle")
    ELSE Idx(stage) < Idx(pc)

Fresh ==
    /\ pr = 0 /\ max_temp = 0 /\ actual_tit = 0
    /\ t_amb = 0 /\ p_amb = 0 /\ v_flight = 0 /\ t2 = 0 /\ p2 = 0 /\ p3 = 0
    /\ t3 = 0
    /\ f = 0 /\ t5 = 0 /\ p5 = 0 /\ v_e = 0
    /\ m_dot_actual = 0 /\ thrust_total = 0 /\ sfc = 0 /\ fuel_flow_hr = 0
    /\ co2_hr = 0 /\ stress_mpa = 0
    /\ kind = [p5 |-> "real", sfc |-> "real"]
    /\ shown = {}
    /\ exc = "none"
    /\ pc = "pr"

\* A rerun starts from fresh globals and an empty page.
Rerun ==
    /\ pr' = 0 /\ max_temp' = 0 /\ actual_tit' = 0
    /\ t_amb' = 0 /\ p_amb' = 0 /\ v_flight' = 0 /\ t2' = 0 /\ p2' = 0
    /\ p3' = 0 /\ t3' = 0
    /\ f' = 0 /\ t5' = 0 /\ p5' = 0 /\ v_e' = 0
    /\ m_dot_actual' = 0 /\ thrust_total' = 0 /\ sfc' = 0
    /\ fuel_flow_hr' = 0 /\ co2_hr' = 0 /\ stress_mpa' = 0
    /\ kind' = [p5 |-> "real", sfc |-> "real"]
    /\ shown' = {}
    /\ exc' = "none"
    /\ pc' = "pr"

Init ==
    /\ alt \in AltValues
    /\ mach \in MachValues
    /\ material \in Materials
    /\ rpm \in RpmValues
    /\ base_tit \in TitValues
    /\ m_dot_ref \in MDotRefValues
    /\ Fresh

\* A. RPM to Pressure Ratio Coupling (line 36)
CouplePR ==
    /\ pc = "pr"
    /\ pr' = PR(rpm)
    /\ pc' = "throttle"
    /\ UNCHANGED <<inputs, max_temp, actual_tit, stations, core, results,
                   kind, shown, exc>>

\* B. Material-Temperature Integrity Coupling (lines 44-45)
MaterialThrottle ==
    /\ pc = "throttle"
    /\ max_temp' = get_max_safe_temp(material)
    /\ actual_tit' = Actual_tit(base_tit, get_max_safe_temp(material))
    /\ pc' = "atmosphere"
    /\ UNCHANGED <<inputs, pr, stations, core, results, kind, shown, exc>>

\* C. Engine Physics: ambient state and flight speed (lines 48-50)
Atmosphere ==
    /\ pc = "atmosphere"
    /\ t_amb' = T_amb(alt)
    /\ p_amb' = P_amb(T_amb(alt))
    /\ v_flight' = V_flight(mach, T_amb(alt))
    /\ pc' = "inlet"
    /\ UNCHANGED <<inputs, coupling, t2, p2, p3, t3, core, results, kind,
                   shown, exc>>

\* Ram compression (lines 52-53)
Inlet ==
    /\ pc = "inlet"
    /\ t2' = T2(t_amb, mach)
    /\ p2' = P2(p_amb, T2(t_amb, mach), t_amb)
    /\ pc' = "compressor"
    /\ UNCHANGED <<inputs, coupling, t_amb, p_amb, v_flight, p3, t3, core,
                   results, kind, shown, exc>>

\* Compressor (lines 54-55)
Compressor ==
    /\ pc = "compressor"
    /\ p3' = P3(p2, pr)
    /\ t3' = T3(t2, pr)
    /\ pc' = "combustor"
    /\ UNCHANGED <<inputs, coupling, t_amb, p_amb, v_flight, t2, p2, core,
                   results, kind, shown, exc>>

\* Combustor energy balance (line 57): no check of the sign of f.
Combustor ==
    /\ pc = "combustor"
    /\ f' = F(actual_tit, t3)
    /\ pc' = "turbine"
    /\ UNCHANGED <<inputs, coupling, stations, t5, p5, v_e, results, kind,
                   shown, exc>>

\* Turbine (lines 58-59).  A negative t5 / actual_tit raised to a fractional
\* power is a Python complex number, so p5 becomes complex.
Turbine ==
    /\ pc = "turbine"
    /\ LET t == T5(actual_tit, t2, t3, f)
       IN  /\ t5' = t
           /\ IF t < 0
              THEN /\ p5' = 0
                   /\ kind' = [kind EXCEPT !.p5 = "complex"]
              ELSE /\ p5' = P5(p3, t, actual_tit)
                   /\ kind' = kind
    /\ pc' = "nozzle"
    /\ UNCHANGED <<inputs, coupling, stations, f, v_e, results, shown, exc>>

\* Nozzle (line 60).  With p5 complex the radicand is complex and
\* max(0, <complex>) raises TypeError; with t5 == 0.0, p5 is 0.0 and
\* p_amb/p5 raises ZeroDivisionError.  Either ends the script run.
Nozzle ==
    /\ pc = "nozzle"
    /\ IF kind.p5 = "complex" \/ t5 = 0
       THEN /\ exc' = (IF kind.p5 = "complex" THEN "TypeError"
                       ELSE "ZeroDivisionError")
            /\ pc' = "crashed"
            /\ v_e' = v_e
       ELSE /\ v_e' = V_e(t5, p_amb, p5)
            /\ pc' = "thrust"
            /\ exc' = exc
    /\ UNCHANGED <<inputs, coupling, stations, f, t5, p5, results, kind,
                   shown>>

\* Mass flow, thrust and SFC (lines 63-65): no check of the divisor.
Thrust ==
    /\ pc = "thrust"
    /\ m_dot_actual' = M_dot_actual(m_dot_ref, rpm, p_amb)
    /\ thrust_total' =
           Thrust_total(M_dot_actual(m_dot_ref, rpm, p_amb), f, v_e, v_flight)
    /\ kind' = [kind EXCEPT !.sfc = SfcKind(f, v_e, v_flight)]
    /\ sfc' = (IF SfcKind(f, v_e, v_flight) = "real"
               THEN Sfc(f, v_e, v_flight) ELSE 0)
    /\ pc' = "sustain"
    /\ UNCHANGED <<inputs, coupling, stations, core, fuel_flow_hr, co2_hr,
                   stress_mpa, shown, exc>>

\* D. Sustainability & Structural (lines 68-70)
Sustainability ==
    /\ pc = "sustain"
    /\ fuel_flow_hr' = Fuel_flow_hr(f, m_dot_actual)
    /\ co2_hr' = Co2_hr(Fuel_flow_hr(f, m_dot_actual))
    /\ stress_mpa' = Stress_mpa(rpm)
    /\ pc' = "metrics"
    /\ UNCHANGED <<inputs, coupling, stations, core, m_dot_actual,
                   thrust_total, sfc, kind, shown, exc>>

\* Display Dashboard: the four metric tiles (lines 73-77)
Metrics ==
    /\ pc = "metrics"
    /\ shown' = shown \cup {"thrust", "sfc", "co2", "pr"}
    /\ pc' = "left"
    /\ UNCHANGED <<inputs, coupling, stations, core, results, kind, exc>>

\* Performance Mapping column (lines 82-91)
PerformancePanel ==
    /\ pc = "left"
    /\ shown' = shown \cup (IF Throttle_warning(actual_tit, base_tit)
                            THEN {"warning"} ELSE {})
    /\ pc' = "right"
    /\ UNCHANGED <<inputs, coupling, stations, core, results, kind, exc>>

\* Structural Safety Analysis column (lines 94-110)
StructuralPanel ==
    /\ pc = "right"
    /\ shown' = shown \cup {"stress"}
                 \cup (IF Critical_banner(actual_tit, base_tit, max_temp)
                       THEN {"critical"} ELSE {"success"})
    /\ pc' = "done"
    /\ UNCHANGED <<inputs, coupling, stations, core, results, kind, exc>>

\* Streamlit reruns the whole script whenever one widget changes value.
InputChange ==
    /\ pc \in {"done", "crashed"}
    /\ \/ alt' \in AltValues \ {alt}
          /\ UNCHANGED <<mach, material, rpm, base_tit, m_dot_ref>>
       \/ mach' \in MachValues \ {mach}
          /\ UNCHANGED <<alt, material, rpm, base_tit, m_dot_ref>>
       \/ material' \in Materials \ {material}
          /\ UNCHANGED <<alt, mach, rpm, base_tit, m_dot_ref>>
       \/ rpm' \in RpmValues \ {rpm}
          /\ UNCHANGED <<alt, mach, material, base_tit, m_dot_ref>>
       \/ base_tit' \in TitValues \ {base_tit}
          /\ UNCHANGED <<alt, mach, material, rpm, m_dot_ref>>
    /\ Rerun

Next ==
    \/ CouplePR
    \/ MaterialThrottle
    \/ Atmosphere
    \/ Inlet
    \/ Compressor
    \/ Combustor
    \/ Turbine
    \/ Nozzle
    \/ Thrust
    \/ Sustainability
    \/ Metrics
    \/ PerformancePanel
    \/ StructuralPanel
    \/ InputChange

Spec == Init /\ [][Next]_vars

\* ------------------------------------------------------------------------
\* Reference values the properties compare the script against
\* ------------------------------------------------------------------------
\* The material limits as the specification tabulates them (kelvin).
MaterialLimit(m) ==
    CASE m = "Stainless Steel" -> 900
      [] m = "Inconel 718" -> 1350
      [] m = "CMSX-4 Superalloy" -> 1900

\* min(requested TIT, material limit) for the current widget values.
ClampedTit ==
    IF base_tit <= MaterialLimit(material) THEN base_tit
    ELSE MaterialLimit(material)

\* The typed failures the specification's evaluate() may return.
DomainErrors ==
    {"NonPositiveCombustorDenominator", "NegativeFuelAirRatio",
     "NonPositiveNetThrust", "TurbineEnergyInversion"}

\* Temperature-de-rated yield strength, yield(T) = max(0, base - slope*(T -
\* T_ref)), in units of 1/SCALE MPa.  The script has no such function: this
\* is the specification's section 4.8.
Yield(m, T) ==
    CASE m = "Stainless Steel" -> Max(0, 500 * SCALE - 8000 * (T - 300))
      [] m = "Inconel 718" -> Max(0, 1000 * SCALE - 5000 * (T - 400))
      [] m = "CMSX-4 Superalloy" -> Max(0, 1200 * SCALE - 3000 * (T - 600))

\* ------------------------------------------------------------------------
\* Properties
\* ------------------------------------------------------------------------

\* C1: the thermal throttle is a hard clamp.  Once lines 44-45 have run,
\* actual_tit is min(base_tit, limit) with limits 900 / 1350 / 1900 K, so it
\* exceeds neither the requested TIT nor the material limit, and it is this
\* clamped value that the combustor (f) and the turbine (t5, p5) compute from.
C1_ThrottleIsHardClamp ==
    Executed("throttle") =>
        /\ max_temp = MaterialLimit(material)
        /\ actual_tit = ClampedTit
        /\ actual_tit <= base_tit
        /\ actual_tit <= MaterialLimit(material)
        /\ Executed("combustor") => f = F(ClampedTit, t3)
        /\ Executed("turbine") => t5 = T5(ClampedTit, t2, t3, f)
        /\ (Executed("turbine") /\ t5 >= 0) => p5 = P5(p3, t5, ClampedTit)

\* C1 witness: an Inconel blade asked for more than 1350 K has run the
\* turbine stage at 1350 K.
C1_Witness ==
    /\ Executed("turbine")
    /\ material = "Inconel 718"
    /\ base_tit > 1350
    /\ actual_tit = 1350

C3_FiniteOrDomainError ==
    /\ pc = "crashed" => exc \in DomainErrors
    /\ pc = "done" => kind.p5 = "real" /\ kind.sfc = "real"

\* C4 (as claimed): once the combustor has produced a negative fuel-air
\* ratio the evaluation has failed with the DomainError NegativeFuelAirRatio;
\* it does not go on to the turbine, thrust, SFC and emissions stages.
C4_NegativeFuelAirRatioRejected ==
    (Executed("combustor") /\ f < 0) =>
        (pc = "crashed" /\ exc = "NegativeFuelAirRatio")

\* C5 (as claimed): SFC is only ever computed from a strictly positive
\* specific thrust, so a computed SFC is a finite non-negative real.
C5_SfcOnlyFromPositiveThrust ==
    Executed("thrust") =>
        /\ SpecificThrust(f, v_e, v_flight) > 0
        /\ kind.sfc = "real"

\* C6 (as claimed): the structural status shown is PASS (the success banner)
\* exactly when the centrifugal stress is at most the de-rated yield strength
\* of the material at the operating temperature.
C6_StructuralVerdictByStress ==
    pc = "done" =>
        ("success" \in shown <=> stress_mpa <= Yield(material, actual_tit))

\* C7 (as claimed): in every evaluation the nozzle statement yields a real
\* v_e >= 0, namely 0 when the radicand is non-positive and its square root
\* otherwise; it is never an error.
C7_ExhaustVelocityClamp ==
    (Executed("turbine") /\ pc # "nozzle") =>
        /\ pc # "crashed"
        /\ v_e >= 0
        /\ Radicand(t5, p_amb, p5) <= 0 => v_e = 0
        /\ Radicand(t5, p_amb, p5) > 0 => v_e = Sqrt(Radicand(t5, p_amb, p5))

\* C8: the atmosphere model is strictly decreasing in altitude.  For the
\* altitude of this evaluation and every higher altitude of the slider
\* (the grid and the neighbour AltProbe feet above), T_amb and p_amb are
\* strictly lower there; T_amb is positive; at sea level T_amb is 288.15 K
\* and p_amb is 101325 Pa.
C8_AtmosphereMonotone ==
    pc = "inlet" =>
        /\ t_amb > 0
        /\ alt = 0 => (t_amb = 28815 /\ p_amb = 101325)
        /\ \A a2 \in (AltValues \cup {alt + AltProbe}) \cap (0..ALT_MAX) :
               a2 > alt =>
                   /\ T_amb(a2) < t_amb
                   /\ T_amb(a2) > 0
                   /\ P_amb(T_amb(a2)) < p_amb

\* C8 witness: the atmosphere has been computed at an altitude strictly
\* inside the slider range, so higher altitudes exist to compare with.
C8_Witness ==
    /\ pc = "inlet"
    /\ alt > 0
    /\ alt + AltProbe <= ALT_MAX
    /\ p_amb < 101325

\* C9: the combustor denominator 0.98*LHV - CP_GAS*actual_tit is strictly
\* positive in every evaluation: every material string, also an unrecognised
\* one, maps to a limit of at most 1900 K, the clamped TIT is at most 1900 K,
\* and CP_GAS*1900 is below 0.98*LHV.
C9_CombustorDenominatorPositive ==
    /\ \A m \in Materials \cup {"Unobtainium"} : get_max_safe_temp(m) <= 1900
    /\ Executed("throttle") =>
           /\ actual_tit <= 1900
           /\ CP_GAS * actual_tit < MulS(9800, LHV)
           /\ CombustorDenominator(actual_tit) > 0

\* C9 witness: the combustor has run at the highest reachable TIT, 1900 K,
\* with the slider at its maximum.
C9_Witness ==
    /\ Executed("combustor")
    /\ base_tit = TIT_MAX
    /\ actual_tit = 1900

====
